---- MODULE Spec2Model ----
(***************************************************************************)
(* ML-RAG-101: the startup ingestion (main.py, ingester.py), the two HTTP  *)
(* handlers (server.py) and the query pipeline (rag_llm.py, searcher.py),  *)
(* as a state machine over the one shared object, the "news" collection.   *)
(* Every call that leaves the process (requests.get, litellm.completion,   *)
(* collection.add, collection.query) is one step, so the handlers of       *)
(* concurrent requests interleave between those calls.                     *)
(***************************************************************************)
EXTENDS Naturals, Sequences, FiniteSets

\* ---------------------------------------------------------------- bounds
MaxItems == 2        \* <item> elements of one feed document
MaxSources == 2      \* rows of the feed source table
MaxIngestReqs == 1   \* POST /ingest requests
MaxQueryReqs == 1    \* POST /query requests

\* ------------------------------------------------------ program constants
MaxEntries == 1000   \* items[:1000]
NResults == 3        \* search_topic(query, n_results=3)

Urls == {"u1", "u2"}
UserQueries == {"q1"}
\* What a text-generation call may return (after .strip()).
LlmTexts == {"q1", "r1"}
\* What the loop finds when it reaches an <item>: "ok" has every tag the loop
\* reads and a link that can be fetched, "malformed" lacks a tag (item.title is
\* None), "deadlink" has a link whose fetch raises.
ItemKinds == {"ok", "malformed", "deadlink"}

VARIABLES
    index,      \* the collection: id -> record
    sources,    \* the urls _urls_from_feedsources returned
    mainpc,     \* main.py: "ingest_all" | "serving"
    srcPos,     \* ingest_all_sources: position of the for loop (1-based)
    attempted,  \* urls ingest_all_sources called ingest_news_feed with, in order
    logged,     \* urls whose failure ingest_all_sources logged, in order
    runs,       \* the calls of ingest_news_feed, in order of their start
    queries     \* the POST /query requests, in order of their start

vars == <<index, sources, mainpc, srcPos, attempted, logged, runs, queries>>

\* ---------------------------------------------------------------- helpers
Range(s) == {s[k] : k \in 1..Len(s)}

Min(a, b) == IF a < b THEN a ELSE b

SeqsUpTo(S, n) == UNION {[1..k -> S] : k \in 0..n}

\* f"doc_{i}" (DocIdConst: the id without the index)
DocIdConst(i) == <<"doc", 0>>
DocId(i) == <<"doc", i>>

\* doc and meta of the i-th entry of run r: the text is that article's own
\* (title, description and body as fetched by run r), the metadata carries
\* the item's title.
Record(r, i) == [text |-> <<r, i>>, title |-> "T"]

\* collection.add(documents, metadatas, ids): a record whose id is already in
\* the collection is left as it is; the others are inserted.
\* (CollectionUpsert: what collection.upsert would do instead.)
CollectionUpsert(idx, ids, docs) ==
    [k \in DOMAIN idx \cup Range(ids) |->
        IF k \in Range(ids)
        THEN docs[CHOOSE j \in 1..Len(ids) : ids[j] = k]
        ELSE idx[k]]
CollectionAdd(idx, ids, docs) ==
    [k \in DOMAIN idx \cup Range(ids) |->
        IF k \in DOMAIN idx
        THEN idx[k]
        ELSE docs[CHOOSE j \in 1..Len(ids) : ids[j] = k]]

\* collection.query(query_texts=[query], n_results=n): the n nearest records,
\* or all of them when the collection holds fewer. The value is the set of hit
\* sets the call may return, empty when the call raises.
\* (QueryRaisesOnFew: a store that raises when it holds fewer than n records.)
QueryRaisesOnFew(idx, n) == {S \in SUBSET DOMAIN idx : Cardinality(S) = n}
CollectionQuery(idx, n) ==
    {S \in SUBSET DOMAIN idx : Cardinality(S) = Min(n, Cardinality(DOMAIN idx))}

\* context: "\n\n".join(f"{meta['title']}: {doc[:500]}..."), the hits' titles and texts
Context(idx, hits) == {[title |-> idx[k].title, text |-> idx[k].text] : k \in hits}

\* ---------------------------------------------------------------- state
EmptyIndex == [k \in {} |-> 0]

\* The collection is persistent (./rag_db): what an earlier process, numbered
\* 0, left in it, the k records of its ingestions that got in.
Persisted(k) == [d \in {DocId(i) : i \in 0..(k - 1)} |-> Record(0, d[2])]

\* The url is not kept: what the fetch of it yields is drawn when it is fetched.
NewRun(origin) ==
    [origin |-> origin, pc |-> "fetch", nitems |-> 0,
     docs |-> <<>>, ids |-> <<>>, exc |-> "", wrote |-> {}, addCalls |-> 0,
     nbatch |-> 0, closed |-> FALSE, status |-> 0, detail |-> ""]

\* The frame of a call of ingest_news_feed that is over and handled: its locals
\* and the exception it raised are gone.
Dropped(run) ==
    [run EXCEPT !.nitems = 0, !.docs = <<>>, !.ids = <<>>, !.wrote = {},
                !.addCalls = 0, !.exc = ""]

NewQuery(q) ==
    [userq |-> q, pc |-> "refine", refined |-> "", calls |-> <<>>,
     seen |-> EmptyIndex, searched |-> FALSE, context |-> {}, answer |-> "",
     exc |-> "", closed |-> FALSE, status |-> 0, body |-> "", conc |-> {}]

RunIds == 1..Len(runs)
QueryIds == 1..Len(queries)

RunEnded(r) == runs[r].pc \in {"returned", "raised"}
QueryEnded(q) == queries[q].pc \in {"returned", "raised"}

HttpRuns == {r \in RunIds : runs[r].origin = "http"}

Init ==
    /\ index \in {Persisted(k) : k \in 0..MaxItems}
    /\ sources \in SeqsUpTo(Urls, MaxSources)
    /\ mainpc = "ingest_all"
    /\ srcPos = 1
    /\ attempted = <<>>
    /\ logged = <<>>
    /\ runs = <<>>
    /\ queries = <<>>

\* ------------------------------------------------- main.py, ingest_all_sources
\* The startup call of ingest_news_feed that has not been handed back yet.
StartupBusy == \E r \in RunIds : runs[r].origin = "startup" /\ ~runs[r].closed

\* if not urls: return -- and main.py goes on to uvicorn.run
AllSourcesNone ==
    /\ mainpc = "ingest_all"
    /\ sources = <<>>
    /\ mainpc' = "serving"
    /\ UNCHANGED <<index, sources, srcPos, attempted, logged, runs, queries>>

\* for url in urls: try: ingest_news_feed(url)
AllSourcesCall ==
    /\ mainpc = "ingest_all"
    /\ srcPos <= Len(sources)
    /\ ~StartupBusy
    /\ runs' = Append(runs, NewRun("startup"))
    /\ attempted' = Append(attempted, sources[srcPos])
    /\ UNCHANGED <<index, sources, mainpc, srcPos, logged, queries>>

\* The loop position after a call of ingest_news_feed returned or raised: the
\* try/except is inside the loop, so the loop goes on to the next url either way.
\* (NextSrcPosAbort: a try/except around the whole loop.)
NextSrcPosAbort(pos, n, failed) == IF failed THEN n + 1 ELSE pos + 1
NextSrcPos(pos, n, failed) == pos + 1

\* the call returned, or raised into: except Exception as e: logger.exception(...)
AllSourcesReturn(r) ==
    /\ runs[r].origin = "startup"
    /\ RunEnded(r)
    /\ ~runs[r].closed
    /\ runs' = [runs EXCEPT ![r] = [Dropped(@) EXCEPT !.closed = TRUE, !.nbatch = 0]]
    /\ logged' = IF runs[r].pc = "raised" THEN Append(logged, sources[srcPos]) ELSE logged
    /\ srcPos' = NextSrcPos(srcPos, Len(sources), runs[r].pc = "raised")
    /\ UNCHANGED <<index, sources, mainpc, attempted, queries>>

\* the for loop is over: ingest_all_sources returns and main.py calls uvicorn.run
StartServer ==
    /\ mainpc = "ingest_all"
    /\ sources # <<>>
    /\ srcPos > Len(sources)
    /\ mainpc' = "serving"
    /\ UNCHANGED <<index, sources, srcPos, attempted, logged, runs, queries>>

\* ------------------------------------------------------------ ingest_news_feed
\* str(e) of the exceptions ingest_news_feed lets through
IngestErrors ==
    {"ConnectionError(feed)", "ConnectionError(article)", "AttributeError", "ValueError"}

Raise(r, text) == [runs EXCEPT ![r].pc = "raised", ![r].exc = text]

\* resp = requests.get(url) raises: the url is unreachable
FetchFeedFail(r) ==
    /\ runs[r].pc = "fetch"
    /\ runs' = Raise(r, "ConnectionError(feed)")
    /\ UNCHANGED <<index, sources, mainpc, srcPos, attempted, logged, queries>>

\* resp = requests.get(url); items = soup.find_all('item')
FetchFeedOk(r) ==
    /\ runs[r].pc = "fetch"
    /\ \E n \in 0..MaxItems :
           runs' = [runs EXCEPT ![r].pc = "loop", ![r].nitems = n]
    /\ UNCHANGED <<index, sources, mainpc, srcPos, attempted, logged, queries>>

\* The collection after one iteration of the loop: docs.append, metas.append
\* and ids.append fill the local lists only.
\* (IndexAfterEntryEager: a loop that adds each record as it is built.)
IndexAfterEntryEager(idx, id, doc) == CollectionAdd(idx, <<id>>, <<doc>>)
IndexAfterEntry(idx, id, doc) == idx

\* len(items[:1000])
LoopLen(n) == Min(n, MaxEntries)

\* one iteration of: for i, item in enumerate(items[:1000])
ProcessEntry(r) ==
    /\ runs[r].pc = "loop"
    /\ LET i == Len(runs[r].docs)
       IN /\ i < LoopLen(runs[r].nitems)
          /\ \E kind \in ItemKinds :
                runs' =
                  IF kind = "malformed" THEN Raise(r, "AttributeError")
                  ELSE IF kind = "deadlink" THEN Raise(r, "ConnectionError(article)")
                  ELSE [runs EXCEPT ![r].docs = Append(@, Record(r, i)),
                                    ![r].ids = Append(@, DocId(i))]
          /\ index' = IF runs'[r].pc = "raised" THEN index
                      ELSE IndexAfterEntry(index, DocId(i), Record(r, i))
    /\ UNCHANGED <<sources, mainpc, srcPos, attempted, logged, queries>>

LoopDone(r) ==
    /\ runs[r].pc = "loop"
    /\ Len(runs[r].docs) = LoopLen(runs[r].nitems)

\* collection.add(documents=docs, metadatas=metas, ids=ids), then return
AddBatch(r) ==
    /\ LoopDone(r)
    /\ runs[r].ids # <<>>
    /\ index' = CollectionAdd(index, runs[r].ids, runs[r].docs)
    /\ runs' = [runs EXCEPT ![r].pc = "returned",
                            ![r].addCalls = @ + 1,
                            ![r].nbatch = Len(runs[r].ids),
                            ![r].wrote = Range(runs[r].ids) \ DOMAIN index]
    /\ UNCHANGED <<sources, mainpc, srcPos, attempted, logged, queries>>

\* collection.add with empty lists: the library rejects them (ValueError) or,
\* in a build that does not validate, adds nothing.
AddEmpty(r) ==
    /\ LoopDone(r)
    /\ runs[r].ids = <<>>
    /\ \/ runs' = [Raise(r, "ValueError") EXCEPT ![r].addCalls = @ + 1]
       \/ runs' = [runs EXCEPT ![r].pc = "returned", ![r].addCalls = @ + 1]
    /\ UNCHANGED <<index, sources, mainpc, srcPos, attempted, logged, queries>>

\* ------------------------------------------------------------------ server.py
ActiveQueries == {q \in QueryIds : ~queries[q].closed}
ActiveHttpRuns == {r \in HttpRuns : ~runs[r].closed}

\* POST /ingest arrives: url = body.url ...; ingest_news_feed(url=url)
PostIngest ==
    /\ mainpc = "serving"
    /\ Cardinality(HttpRuns) < MaxIngestReqs
    /\ runs' = Append(runs, NewRun("http"))
    /\ queries' = [q \in QueryIds |->
                     IF q \in ActiveQueries
                     THEN [queries[q] EXCEPT !.conc = @ \cup {Len(runs) + 1}]
                     ELSE queries[q]]
    /\ UNCHANGED <<index, sources, mainpc, srcPos, attempted, logged>>

\* status of the response of POST /ingest
\* (IngestStatusSwallow: a handler that logs the exception and answers 200.)
IngestStatusSwallow(pc) == 200
IngestStatus(pc) == IF pc = "raised" THEN 500 ELSE 200

\* return IngestResponse(...), or except Exception: raise HTTPException(500, str(e))
PostIngestReturn(r) ==
    /\ runs[r].origin = "http"
    /\ RunEnded(r)
    /\ ~runs[r].closed
    /\ runs' = [runs EXCEPT ![r] =
                   [Dropped(@) EXCEPT
                       !.closed = TRUE,
                       !.status = IngestStatus(runs[r].pc),
                       !.detail = IF runs[r].pc = "raised" THEN runs[r].exc
                                  ELSE "Ingested feed"]]
    /\ UNCHANGED <<index, sources, mainpc, srcPos, attempted, logged, queries>>

\* POST /query arrives: rag_query(user_query=body.query, model=body.model)
PostQuery ==
    /\ mainpc = "serving"
    /\ Len(queries) < MaxQueryReqs
    /\ \E u \in UserQueries :
           queries' = Append(queries, [NewQuery(u) EXCEPT !.conc = ActiveHttpRuns])
    /\ UNCHANGED <<index, sources, mainpc, srcPos, attempted, logged, runs>>

\* return QueryResponse(answer=answer), or except Exception: HTTPException(500, str(e))
PostQueryReturn(q) ==
    /\ QueryEnded(q)
    /\ ~queries[q].closed
    /\ queries' = [queries EXCEPT ![q].closed = TRUE,
                      ![q].status = IF queries[q].pc = "raised" THEN 500 ELSE 200,
                      ![q].body = IF queries[q].pc = "raised" THEN queries[q].exc
                                  ELSE queries[q].answer]
    /\ UNCHANGED <<index, sources, mainpc, srcPos, attempted, logged, runs>>

\* ----------------------------------------------------- rag_llm.py, searcher.py
\* prompt of generate_query_llm
RefinePrompt(userq) == [kind |-> "refine", question |-> userq, context |-> {}]

\* rag_prompt: "Using this current affairs context: {context} Answer: {user_query}"
RagPrompt(ctx, userq) ==
    [kind |-> "answer", question |-> userq, context |-> ctx]

\* the query search_topic is called with
\* (SearchArgOriginal: searching with the user's question.)
SearchArgOriginal(userq, refined) == userq
SearchArg(userq, refined) == refined

Call(fn, arg) == [fn |-> fn, arg |-> arg]

\* str(e) of a failure of a remote call or of the store
QueryFaults == {"llm_error", "store_error"}

\* A call of a step raises: nothing in rag_query or below catches it.
\* (QRaiseRetry: the call is made a second time before the failure surfaces.)
QRaiseRetry(qs, q, call, text) ==
    [qs EXCEPT ![q].pc = "raised", ![q].exc = text,
               ![q].calls = Append(Append(@, call), call)]
QRaise(qs, q, call, text) ==
    [qs EXCEPT ![q].pc = "raised", ![q].exc = text, ![q].calls = Append(@, call)]

\* Step 1: refined_query = generate_query_llm(user_query, model)
Refine(q) ==
    /\ queries[q].pc = "refine"
    /\ LET call == Call("completion", RefinePrompt(queries[q].userq))
       IN \/ queries' = QRaise(queries, q, call, "llm_error")
          \/ \E t \in LlmTexts :
                queries' = [queries EXCEPT ![q].pc = "search", ![q].refined = t,
                                           ![q].calls = Append(@, call)]
    /\ UNCHANGED <<index, sources, mainpc, srcPos, attempted, logged, runs>>

\* Step 2: docs, metas = search_topic(refined_query); context = ...
Search(q) ==
    /\ queries[q].pc = "search"
    /\ LET call == Call("query", SearchArg(queries[q].userq, queries[q].refined))
           res == CollectionQuery(index, NResults)
           saw == [queries EXCEPT ![q].searched = TRUE, ![q].seen = index]
       IN \/ queries' = QRaise(saw, q, call, "store_error")
          \/ IF res = {}
             THEN queries' = QRaise(saw, q, call, "not_enough")
             ELSE \E hits \in res :
                    queries' = [saw EXCEPT ![q].pc = "generate",
                                           ![q].context = Context(index, hits),
                                           ![q].calls = Append(@, call)]
    /\ UNCHANGED <<index, sources, mainpc, srcPos, attempted, logged, runs>>

\* Step 3: resp = litellm.completion(..., rag_prompt); return answer
Generate(q) ==
    /\ queries[q].pc = "generate"
    /\ LET call == Call("completion",
                        RagPrompt(queries[q].context, queries[q].userq))
       IN \/ queries' = QRaise(queries, q, call, "llm_error")
          \/ \E t \in LlmTexts :
                queries' = [queries EXCEPT ![q].pc = "returned", ![q].answer = t,
                                           ![q].calls = Append(@, call)]
    /\ UNCHANGED <<index, sources, mainpc, srcPos, attempted, logged, runs>>

\* ------------------------------------------------------------ specification
\* main.py up to uvicorn.run, and the calls of ingest_news_feed
NextIngestion ==
    \/ AllSourcesNone
    \/ AllSourcesCall
    \/ StartServer
    \/ \E r \in RunIds : AllSourcesReturn(r)
    \/ \E r \in RunIds : FetchFeedFail(r)
    \/ \E r \in RunIds : FetchFeedOk(r)
    \/ \E r \in RunIds : ProcessEntry(r)
    \/ \E r \in RunIds : AddBatch(r)
    \/ \E r \in RunIds : AddEmpty(r)

\* POST /ingest
NextPostIngest ==
    \/ PostIngest
    \/ \E r \in RunIds : PostIngestReturn(r)

\* POST /query
NextPostQuery ==
    \/ PostQuery
    \/ \E q \in QueryIds : Refine(q)
    \/ \E q \in QueryIds : Search(q)
    \/ \E q \in QueryIds : Generate(q)
    \/ \E q \in QueryIds : PostQueryReturn(q)

Next == NextIngestion \/ NextPostIngest \/ NextPostQuery

\* The whole service: startup, then POST /ingest and POST /query interleaved.
Spec == Init /\ [][Next]_vars

\* The writers of the index alone: startup and POST /ingest, no query (a query
\* writes nothing).
NextIngest == NextIngestion \/ NextPostIngest
SpecIngest == Init /\ [][NextIngest]_vars

\* The query path alone, over every index the startup can leave.
NextQuery == NextIngestion \/ NextPostQuery
SpecQuery == Init /\ [][NextQuery]_vars

\* ------------------------------------------------------------------- claims
\* The ids of the records of run r that an index holds.
RecordsOf(idx, r) == {k \in DOMAIN idx : idx[k].text[1] = r}

\* A call of ingest_news_feed that has just returned (its frame is still there).
JustReturned(r) == runs[r].pc = "returned" /\ ~runs[r].closed

\* C1: a call of ingest_news_feed on a feed of N well-formed items, from any
\* prior state of the index, adds exactly N records, each with a non-empty title.
C1_AddsExactlyN ==
    \A r \in RunIds :
        JustReturned(r) =>
            /\ Cardinality(runs[r].wrote) = runs[r].nitems
            /\ \A k \in runs[r].wrote : index[k].title # ""

\* C2: POST /ingest with an unreachable feed url answers 500 with the error
\* text, and the request wrote nothing: it never called collection.add and no
\* record of it is in the index.
C2_UnreachableIngest ==
    \A r \in HttpRuns :
        (\/ runs[r].exc = "ConnectionError(feed)"
         \/ runs[r].detail = "ConnectionError(feed)") =>
            /\ runs[r].pc = "raised"
            /\ runs[r].addCalls = 0
            /\ runs[r].nbatch = 0
            /\ RecordsOf(index, r) = {}
            /\ runs[r].closed => runs[r].status = 500

C2_Witness ==
    \E r \in HttpRuns :
        /\ runs[r].closed
        /\ runs[r].detail = "ConnectionError(feed)"
        /\ runs[r].status = 500
        /\ DOMAIN index # {}

\* C3: a POST /query whose search ran against the empty index, the remote
\* calls and the store answering, does not fail at the search: the context is
\* empty, the third step runs with it, and the response is 200 with the answer.
C3_EmptyIndexQuery ==
    \A q \in QueryIds :
        (/\ queries[q].searched
         /\ DOMAIN queries[q].seen = {}
         /\ queries[q].exc \notin QueryFaults) =>
            /\ queries[q].pc # "raised"
            /\ queries[q].context = {}
            /\ queries[q].pc = "returned" =>
                  /\ Len(queries[q].calls) = 3
                  /\ queries[q].calls[3].arg.context = {}
            /\ queries[q].closed =>
                  /\ queries[q].status = 200
                  /\ queries[q].body = queries[q].answer

C3_Witness ==
    \E q \in QueryIds :
        /\ queries[q].closed
        /\ queries[q].searched
        /\ DOMAIN queries[q].seen = {}
        /\ queries[q].status = 200
        /\ queries[q].body \in LlmTexts

\* The calls rag_query makes, in order.
StepFns == <<"completion", "query", "completion">>

\* The step of rag_query that raised.
FailedStep(q) ==
    IF queries[q].exc = "store_error" THEN 2
    ELSE IF queries[q].searched THEN 3 ELSE 1

\* C4: a failure of any step of POST /query (refine, search, generate) yields
\* a 500 carrying the exception text and no answer; the failed call was made
\* once and is the last call of the request.
C4_QueryFailure ==
    \A q \in QueryIds :
        queries[q].pc = "raised" =>
            /\ queries[q].answer = ""
            /\ Len(queries[q].calls) = FailedStep(q)
            /\ \A k \in 1..Len(queries[q].calls) : queries[q].calls[k].fn = StepFns[k]
            /\ queries[q].closed =>
                  /\ queries[q].status = 500
                  /\ queries[q].body = queries[q].exc
                  /\ queries[q].body \in QueryFaults

C4_Witness ==
    \E q \in QueryIds :
        /\ queries[q].closed
        /\ queries[q].status = 500
        /\ queries[q].exc = "store_error"
        /\ Len(queries[q].calls) = 2

StartupRuns == {r \in RunIds : runs[r].origin = "startup"}

\* C5: ingest_all_sources calls ingest_news_feed on every url of the list
\* once, in list order; a failure is logged, the later feeds are still
\* attempted, and the startup is never stuck: the server starts after the last
\* feed was attempted.
C5_AllSourcesAttempted ==
    /\ Len(attempted) <= Len(sources)
    /\ attempted = SubSeq(sources, 1, Len(attempted))
    /\ Len(attempted) = Cardinality(StartupRuns)
    /\ Len(logged) = Cardinality({r \in StartupRuns : runs[r].closed /\ runs[r].pc = "raised"})
    /\ mainpc = "serving" =>
          /\ attempted = sources
          /\ \A r \in StartupRuns : runs[r].closed
    /\ mainpc = "ingest_all" => ENABLED NextIngestion

C5_Witness ==
    /\ mainpc = "serving"
    /\ Len(sources) = 2
    /\ Len(attempted) = 2
    /\ runs[1].pc = "raised"
    /\ logged = <<sources[1]>>

\* C6: the records of a feed reach the index in the one collection.add after
\* the loop: while a call is in its loop, and after it raised, no record of it
\* is in the index, whatever number of articles it had processed.
C6_AllOrNothing ==
    \A r \in RunIds :
        /\ runs[r].pc \in {"fetch", "loop", "raised"} => RecordsOf(index, r) = {}
        /\ runs[r].pc = "raised" /\ runs[r].exc # "ValueError" => runs[r].addCalls = 0
        /\ runs[r].addCalls <= 1

C6_Witness ==
    \E r \in RunIds :
        /\ runs[r].pc = "raised"
        /\ Len(runs[r].docs) >= 1
        /\ runs[r].exc \in {"AttributeError", "ConnectionError(article)"}
        /\ DOMAIN index # {}

\* C7: within one call of ingest_news_feed the i-th processed entry gets the
\* id doc_i, i counting from 0, so the ids of the batch are pairwise distinct.
C7_BatchIds ==
    \A r \in RunIds :
        /\ Len(runs[r].ids) = Len(runs[r].docs)
        /\ \A j \in 1..Len(runs[r].ids) : runs[r].ids[j] = <<"doc", j - 1>>
        /\ \A j, k \in 1..Len(runs[r].ids) : j # k => runs[r].ids[j] # runs[r].ids[k]

C7_Witness ==
    \E r \in RunIds :
        /\ JustReturned(r)
        /\ runs[r].addCalls = 1
        /\ Len(runs[r].ids) = 2

\* C8: a record that is in the index stays there with its text and metadata
\* unchanged through every step, a later ingestion that generates its id
\* included.
C8_NeverUpdated ==
    [][\A k \in DOMAIN index : k \in DOMAIN index' /\ index'[k] = index[k]]_vars

\* a later ingestion generated ids that were already in the index
C8_Witness ==
    \E r \in RunIds :
        /\ JustReturned(r)
        /\ runs[r].addCalls = 1
        /\ runs[r].wrote # Range(runs[r].ids)
        /\ \E k \in Range(runs[r].ids) : index[k].text[1] # r

\* C9: a rag_query that returned made exactly three calls, in the order
\* completion (refine), query (search), completion (generate): the search was
\* given the text the first call returned, and the prompt of the last call
\* holds the retrieved context and the user's original question.
C9_PipelineOrder ==
    \A q \in QueryIds :
        queries[q].pc = "returned" =>
            /\ Len(queries[q].calls) = 3
            /\ \A k \in 1..3 : queries[q].calls[k].fn = StepFns[k]
            /\ queries[q].calls[1].arg.kind = "refine"
            /\ queries[q].calls[1].arg.question = queries[q].userq
            /\ queries[q].calls[2].arg = queries[q].refined
            /\ queries[q].calls[3].arg.kind = "answer"
            /\ queries[q].calls[3].arg.context = queries[q].context
            /\ queries[q].calls[3].arg.question = queries[q].userq

C9_Witness ==
    \E q \in QueryIds :
        /\ queries[q].closed
        /\ queries[q].status = 200
        /\ queries[q].refined # queries[q].userq
        /\ queries[q].context # {}

\* The search of query q returned its hits.
SearchReturned(q) ==
    /\ queries[q].searched
    /\ queries[q].exc \notin {"store_error", "not_enough"}

\* C10: the search of a POST /query that overlaps a POST /ingest sees none or
\* all of the records that ingestion built, never a proper non-empty subset.
C10_NoneOrAll ==
    \A q \in QueryIds :
        \A r \in queries[q].conc :
            SearchReturned(q) =>
                \/ RecordsOf(queries[q].seen, r) = {}
                \/ Cardinality(RecordsOf(queries[q].seen, r)) = runs[r].nbatch

====
